---- MODULE Spec2Model ----
(***************************************************************************)
(* Model of the BigQuery adapter for the Moleculer DB service              *)
(* (BigQueryDbAdapter): context resolution, filter shaping, SQL building   *)
(* with the knex query builder, and job execution against the warehouse.   *)
(*                                                                         *)
(* Conventions                                                             *)
(*   - a string is a sequence of one-character strings, so that replace    *)
(*     and split act on it as they do in the code;                         *)
(*   - a name (object key, column) is such a string too;                   *)
(*   - a JS object is a sequence of <<key, value>> pairs with distinct     *)
(*     keys, in insertion order (the order Object.keys walks);             *)
(*   - a table is a bag of rows; a row maps every table column to a value. *)
(***************************************************************************)
EXTENDS Bags, FiniteSets, Integers, Sequences, TLC

\* ------------------------------------------------------------------ bounds

\* largest number of rows a table holds before inserts stop being offered
MaxRows == 2
\* longest entity list handed to insertMany
MaxList == 2
\* longest logical ordering the sort shapes are compared on
MaxSortCols == 3

\* ------------------------------------------------------------- JS objects

Range(s) == { s[i] : i \in DOMAIN s }

Keys(o) == [ i \in DOMAIN o |-> o[i][1] ]

Has(o, k) == \E i \in DOMAIN o : o[i][1] = k

Get(o, k) == o[CHOOSE i \in DOMAIN o : o[i][1] = k][2]

SelectSeqIdx(s, Keep(_)) ==
  LET F[i \in 0..Len(s)] ==
        IF i = 0 THEN << >>
        ELSE IF Keep(i) THEN Append(F[i - 1], s[i]) ELSE F[i - 1]
  IN  F[Len(s)]

\* delete o[k]
Del(o, k) == SelectSeqIdx(o, LAMBDA i : o[i][1] # k)

\* o[k] = v: an existing key keeps its place, a new key goes last
Set(o, k, v) ==
  IF Has(o, k) THEN [ i \in DOMAIN o |-> IF o[i][1] = k THEN <<k, v>> ELSE o[i] ]
  ELSE Append(o, <<k, v>>)

\* Object.assign(o, src)
RECURSIVE Assign(_, _)
Assign(o, src) ==
  IF src = << >> THEN o
  ELSE Assign(Set(o, Head(src)[1], Head(src)[2]), Tail(src))

\* ---------------------------------------------------------------- strings

\* s.replace(/,/, " "): without the g flag only the first match is replaced
ReplaceFirstComma(s) ==
  IF \E i \in DOMAIN s : s[i] = ","
  THEN LET j == CHOOSE i \in DOMAIN s :
                  s[i] = "," /\ \A h \in 1..(i - 1) : s[h] # ","
       IN  [ i \in DOMAIN s |-> IF i = j THEN " " ELSE s[i] ]
  ELSE s

\* s.split(" "): every space ends a piece, empty pieces are kept
RECURSIVE Split(_)
Split(s) ==
  IF \E i \in DOMAIN s : s[i] = " "
  THEN LET j == CHOOSE i \in DOMAIN s :
                  s[i] = " " /\ \A h \in 1..(i - 1) : s[h] # " "
       IN  << SubSeq(s, 1, j - 1) >> \o Split(SubSeq(s, j + 1, Len(s)))
  ELSE << s >>

\* s.startsWith("-")
StartsWithDash(s) == Len(s) > 0 /\ s[1] = "-"

\* value LIKE '%term%'
Contains(v, term) ==
  \E i \in 0..(Len(v) - Len(term)) : SubSeq(v, i + 1, i + Len(term)) = term

\* ------------------------------------------------- names and program data

\* the key the integration hook attaches the context under
APC == <<"adapter_private_context">>

K_query == <<"query">>
K_search == <<"search">>
K_searchFields == <<"searchFields">>
K_sort == <<"sort">>
K_limit == <<"limit">>
K_offset == <<"offset">>
K_id == <<"i", "d">>

\* columns of the tenant tables: the primary key, a name and an age
ColK == <<"k">>
ColN == <<"n">>
ColA == <<"a">>
TableCols == { ColK, ColN, ColA }

\* column values; Null is SQL NULL
Null == <<"NULL">>
VX == <<"x">>
VY == <<"y">>
VXY == <<"x", "y">>

\* a JS value used in a condition: "" is falsy, other strings are truthy
Truthy(v) == v # << >>

\* ----------------------------------------------------- knex query builder

\* bq(tableName): the pg dialect quotes identifiers with double quotes; pragma
\* is what a text rewrite put in front of the statement, nothing as built
bq(tableName) ==
  [ table |-> tableName, method |-> "select", wheres |-> << >>,
    orders |-> << >>, limit |-> << >>, offset |-> << >>, count |-> << >>,
    values |-> << >>, quote |-> "double", pragma |-> << >> ]

Clause(bool, col, op, val) == [ bool |-> bool, col |-> col, op |-> op, val |-> val ]

\* q.where(object): one equality per key, joined with AND
q_where(q, obj) ==
  [ q EXCEPT !.wheres =
      @ \o [ i \in DOMAIN obj |-> Clause("and", obj[i][1], "=", << obj[i][2] >>) ] ]

\* q.orWhere(field, "like", `%${term}%`)
q_orWhere(q, field, term) ==
  [ q EXCEPT !.wheres = Append(@, Clause("or", field, "like", << term >>)) ]

\* q.whereIn(column, list)
q_whereIn(q, col, list) ==
  [ q EXCEPT !.wheres = Append(@, Clause("and", col, "in", list)) ]

q_orderBy(q, col, dir) == [ q EXCEPT !.orders = Append(@, << col, dir >>) ]

q_limit(q, n) == [ q EXCEPT !.limit = << n >> ]

q_offset(q, n) == [ q EXCEPT !.offset = << n >> ]

q_count(q, col) == [ q EXCEPT !.count = col ]

q_insert(q, rows) == [ q EXCEPT !.method = "insert", !.values = rows ]

q_update(q, obj) == [ q EXCEPT !.method = "update", !.values = << obj >> ]

q_del(q) == [ q EXCEPT !.method = "del" ]

\* A query text is the sequence of its statements.
\* formatQuery: every double quote of the text becomes a backtick
formatQuery(text) ==
  [ i \in DOMAIN text |->
      [ text[i] EXCEPT !.quote = IF @ = "double" THEN "backtick" ELSE @ ] ]

\* q.toString()
toString(q) == << q >>

\* ------------------------------------------------------------ transformSort

\* the array branch: sortObj[s.slice(1)] = -1 or sortObj[s] = 1, in turn
RECURSIVE SortObjOf(_, _)
SortObjOf(tokens, sortObj) ==
  IF tokens = << >> THEN sortObj
  ELSE LET s == Head(tokens)
       IN  SortObjOf(Tail(tokens),
                     IF StartsWithDash(s) THEN Set(sortObj, Tail(s), -1)
                     ELSE Set(sortObj, s, 1))

\* Object.keys(sort).forEach(key => q.orderBy(key, sort[key] > 0 ? "asc" : "desc"))
RECURSIVE OrderByAll(_, _)
OrderByAll(q, sortObj) ==
  IF sortObj = << >> THEN q
  ELSE OrderByAll(q_orderBy(q, Head(sortObj)[1],
                          IF Head(sortObj)[2] > 0 THEN "asc" ELSE "desc"),
                  Tail(sortObj))

\* the string branch: sort.replace(/,/, " ").split(" ")
SortTokens(str) == Split(ReplaceFirstComma(str))

\* transformSort(q, paramSort); paramSort is <<"string", s>>, <<"array", a>>
\* or <<"object", o>>
transformSort(q, paramSort) ==
  LET asArray == IF paramSort[1] = "string" THEN << "array", SortTokens(paramSort[2]) >>
                 ELSE paramSort
      asObject == IF asArray[1] = "array" THEN SortObjOf(asArray[2], << >>)
                  ELSE asArray[2]
  IN  OrderByAll(q, asObject)

\* ---------------------------------------------- migrateIdParamToPrimaryKey

RECURSIVE DelAll(_, _)
DelAll(o, keys) ==
  IF keys = << >> THEN o ELSE DelAll(Del(o, Head(keys)), Tail(keys))

\* whereObject is the query of the filter, the empty object when the filter
\* has none (the spread of undefined is the empty object)
migrateIdParamToPrimaryKey(whereObject, primaryKey, queryBlacklist) ==
  LET whereObjectCopy == whereObject
      withKey == IF Has(whereObjectCopy, K_id) /\ Truthy(Get(whereObjectCopy, K_id))
                 THEN Assign(whereObjectCopy,
                             << << primaryKey, Get(whereObjectCopy, K_id) >> >>)
                 ELSE whereObjectCopy
  IN  DelAll(withKey, queryBlacklist)

\* ----------------------------------------------------- createCursor's query

\* if (params.sort), if (params.searchFields): an empty string is falsy,
\* arrays and objects are truthy
TruthyTagged(tv) == tv[1] # "string" \/ tv[2] # << >>

\* a guard that lets every non-zero number through
PositiveNumber_nonzero(tv) == tv[1] = "number" /\ tv[2] # 0

\* _.isNumber(v) && v > 0
PositiveNumber(tv) == tv[1] = "number" /\ tv[2] > 0

RECURSIVE OrWhereAll(_, _, _)
OrWhereAll(q, fields, term) ==
  IF fields = << >> THEN q
  ELSE OrWhereAll(q_orWhere(q, Head(fields), term), Tail(fields), term)

\* the query createCursor builds from params, once the context is stripped
CursorQuery(params, tableName, isCounting, primaryKey, queryBlacklist) ==
  LET q0 == bq(tableName)
      searching == Has(params, K_search) /\ Get(params, K_search) # << >>
      fields == IF Has(params, K_searchFields) /\ TruthyTagged(Get(params, K_searchFields))
                THEN LET sf == Get(params, K_searchFields)
                     IN  IF sf[1] = "string" THEN Split(sf[2]) ELSE sf[2]
                ELSE << >>
      sorted(q) == IF Has(params, K_sort) /\ TruthyTagged(Get(params, K_sort))
                   THEN transformSort(q, Get(params, K_sort))
                   ELSE q
      qSearch ==
        LET qa == IF Has(params, K_query)
                  THEN q_where(q0, migrateIdParamToPrimaryKey(
                                   Get(params, K_query), primaryKey, queryBlacklist))
                  ELSE q0
        IN  sorted(OrWhereAll(qa, fields, Get(params, K_search)))
      qPlain ==
        sorted(q_where(q0, migrateIdParamToPrimaryKey(
                           IF Has(params, K_query) THEN Get(params, K_query) ELSE << >>,
                           primaryKey, queryBlacklist)))
      q1 == IF searching THEN qSearch ELSE qPlain
      q2 == IF Has(params, K_offset) /\ PositiveNumber(Get(params, K_offset))
            THEN q_offset(q1, Get(params, K_offset)[2]) ELSE q1
      q3 == IF Has(params, K_limit) /\ PositiveNumber(Get(params, K_limit))
            THEN q_limit(q2, Get(params, K_limit)[2]) ELSE q2
      q4 == IF Len(params) > 0 THEN q3 ELSE q0
  IN  IF isCounting THEN q_count(q4, primaryKey) ELSE q_where(q4, << >>)

\* ------------------------------------------------------ the warehouse engine

\* the row an INSERT writes for an entity: columns it does not name are NULL
RowOf(entity) ==
  [ c \in TableCols |-> IF Has(entity, c) THEN Get(entity, c) ELSE Null ]

EvalClause(row, cl) ==
  /\ row[cl.col] # Null
  /\ CASE cl.op = "=" -> row[cl.col] = cl.val[1]
       [] cl.op = "like" -> Contains(row[cl.col], cl.val[1])
       [] cl.op = "in" -> row[cl.col] \in Range(cl.val)

\* SQL precedence: AND binds tighter than OR, so the flat clause list is an
\* OR of runs of AND-ed clauses, each run starting at an "or" clause
Matches(row, wheres) ==
  \/ wheres = << >>
  \/ \E i \in DOMAIN wheres :
       /\ i = 1 \/ wheres[i].bool = "or"
       /\ LET ends == { j \in i..Len(wheres) :
                          j = Len(wheres) \/ wheres[j + 1].bool = "or" }
              last == CHOOSE j \in ends : \A h \in ends : j <= h
          IN  \A h \in i..last : EvalClause(row, wheres[h])

BagFilter(B, Keep(_)) == [ r \in { x \in DOMAIN B : Keep(x) } |-> B[r] ]

RECURSIVE BagOfSeq(_)
BagOfSeq(s) == IF s = << >> THEN EmptyBag ELSE SetToBag({ Head(s) }) (+) BagOfSeq(Tail(s))

\* order of values for ORDER BY: NULL first, then lexicographic
CharRank(ch) == CASE ch = "x" -> 1 [] ch = "y" -> 2 [] OTHER -> 0

RECURSIVE LessStr(_, _)
LessStr(a, b) ==
  IF b = << >> THEN FALSE
  ELSE IF a = << >> THEN TRUE
  ELSE IF CharRank(a[1]) # CharRank(b[1]) THEN CharRank(a[1]) < CharRank(b[1])
  ELSE LessStr(Tail(a), Tail(b))

LessVal(a, b) == IF a = Null THEN b # Null ELSE b # Null /\ LessStr(a, b)

\* row r comes strictly before row t under the ORDER BY list
RECURSIVE Before(_, _, _)
Before(r, t, orders) ==
  IF orders = << >> THEN FALSE
  ELSE LET c == Head(orders)[1]
           asc == Head(orders)[2] = "asc"
       IN  IF r[c] = t[c] THEN Before(r, t, Tail(orders))
           ELSE IF asc THEN LessVal(r[c], t[c]) ELSE LessVal(t[c], r[c])

\* the sequences the engine may deliver the bag M in under the ORDER BY list
Deliveries(M, orders) ==
  LET n == BagCardinality(M)
  IN  { s \in [ 1..n -> BagToSet(M) ] :
          /\ \A r \in BagToSet(M) : Cardinality({ i \in 1..n : s[i] = r }) = CopiesIn(r, M)
          /\ \A i \in 1..n : \A j \in (i + 1)..n : ~Before(s[j], s[i], orders) }

\* the rows OFFSET off LIMIT lim keeps of a delivery; << >> is no clause
Window(s, off, lim) ==
  LET o == IF off = << >> THEN 0 ELSE off[1]
  IN  SubSeq(s, o + 1, IF lim # << >> /\ o + lim[1] < Len(s) THEN o + lim[1] ELSE Len(s))

\* the columns a statement names
StmtCols(q) ==
  { q.wheres[i].col : i \in DOMAIN q.wheres }
    \cup { q.orders[i][1] : i \in DOMAIN q.orders }
    \cup (IF q.count = << >> THEN {} ELSE { q.count })
    \cup UNION { Range(Keys(q.values[i])) : i \in DOMAIN q.values }

\* the engine accepts a statement whose identifiers are backtick-quoted
\* columns of the table, whose LIMIT and OFFSET counts are not negative and
\* whose OFFSET follows a LIMIT
ValidStmt(q) ==
  /\ q.quote = "backtick"
  /\ StmtCols(q) \subseteq TableCols
  /\ \A n \in Range(q.limit) \cup Range(q.offset) : n >= 0
  /\ q.offset # << >> => q.limit # << >>

\* what a statement can yield on table content tbl: the content after it,
\* the rows it returns and, for a count, the aggregate row's f0_
StmtOutcomes(q, tbl) ==
  LET hit == BagFilter(tbl, LAMBDA r : Matches(r, q.wheres))
      miss == BagFilter(tbl, LAMBDA r : ~Matches(r, q.wheres))
      none == [ table |-> tbl, rows |-> EmptyBag, agg |-> << >> ]
  IN  CASE q.method = "insert" ->
             { [ none EXCEPT !.table = tbl (+) BagOfSeq([ i \in DOMAIN q.values |->
                                                           RowOf(q.values[i]) ]) ] }
        [] q.method = "update" ->
             { [ none EXCEPT !.table = miss (+) BagOfAll(
                   LAMBDA r : [ c \in TableCols |->
                                  IF Has(q.values[1], c) THEN Get(q.values[1], c)
                                  ELSE r[c] ], hit) ] }
        [] q.method = "del" -> { [ none EXCEPT !.table = miss ] }
        [] q.method = "select" /\ q.count # << >> ->
             LET n == BagCardinality(BagFilter(hit, LAMBDA r : r[q.count] # Null))
             IN  { [ none EXCEPT !.agg = Window(<< n >>, q.offset, q.limit) ] }
        [] OTHER ->
             IF q.limit = << >> /\ q.offset = << >> THEN { [ none EXCEPT !.rows = hit ] }
             ELSE { [ none EXCEPT !.rows = BagOfSeq(Window(s, q.offset, q.limit)) ] :
                    s \in Deliveries(hit, q.orders) }

\* a job that yields its first statement's result
RECURSIVE JobOutcomes_first(_, _)
JobOutcomes_first(text, tbl) ==
  IF Len(text) = 1 THEN StmtOutcomes(text[1], tbl)
  ELSE UNION { { [ o2 EXCEPT !.rows = o1.rows, !.agg = o1.agg ] :
                 o2 \in JobOutcomes_first(Tail(text), o1.table) } :
               o1 \in StmtOutcomes(Head(text), tbl) }

\* a job runs its statements in order and yields the last statement's result
RECURSIVE JobOutcomes(_, _)
JobOutcomes(text, tbl) ==
  IF Len(text) = 1 THEN StmtOutcomes(text[1], tbl)
  ELSE UNION { JobOutcomes(Tail(text), o.table) : o \in StmtOutcomes(Head(text), tbl) }

\* ------------------------------------------------------------------- state

VARIABLES
  config,    \* bigQueryConfig: idKey (what getIdKey resolves), queryBlacklist
  caller,    \* what the calling service builds payloads from: pool, ctxIds
  ctxs,      \* the context objects the hook attaches, by identity
  heap,      \* per caller, the payload objects of its latest call
  tables,    \* the warehouse: table name -> bag of rows
  calls,     \* per caller, the adapter call in progress or last finished
  prev,      \* the read (find, findById) the caller got back just before the
             \* call now in calls, or NoPrev
  sortCase   \* scratch of the sort-shape comparison: ordering, separator, outputs

vars == << config, caller, ctxs, heap, tables, calls, prev, sortCase >>

Slots == { 1, 2 }
CtxIds == { 1, 2 }

\* the settings the adapter's configuration type requires
Required == { "projectId", "getRegion", "getIdKey", "getTableName" }

\* service.schema.bigQuery, or this.bigQueryConfig: absent (undefined), or an
\* object holding some of the settings
Settings(present, has) == [ present |-> present, has |-> has ]

Undefined == Settings(FALSE, {})

\* the adapter after init ran on a schema with every setting: getIdKey
\* resolves idKey, with the given queryBlacklist, with or without a
\* queryWrapper
Configured(idKey, queryBlacklist, queryWrapper) ==
  [ idKey |-> idKey, queryBlacklist |-> queryBlacklist, queryWrapper |-> queryWrapper,
    schema |-> Settings(TRUE, Required), bigQueryConfig |-> Settings(TRUE, Required),
    broker |-> TRUE, service |-> TRUE, initOut |-> "ok" ]

\* the two tenants' context objects before any call resolved them
Contexts0 ==
  [ k \in CtxIds |->
      [ impact |-> IF k = 1 THEN "i1" ELSE "i2",
        region |-> IF k = 1 THEN "US" ELSE "EU",
        tableName |-> << >> ] ]

\* bigQueryConfig.getTableName(context)
getTableName(context) == << "Impact", context.impact >>

TableNames == { getTableName(Contexts0[k]) : k \in CtxIds }

NoOut == [ kind |-> "pending", rows |-> EmptyBag, num |-> 0 ]

\* an error turned into an empty result
Failure_swallow(kind) == [ NoOut EXCEPT !.kind = "rows" ]

\* the operation rejects with an error of this kind
Failure(kind) == [ NoOut EXCEPT !.kind = kind ]

InitCall ==
  [ op |-> "none", pc |-> "idle", tmpls |-> << >>, given |-> << >>,
    reuse |-> FALSE, args |-> << >>, where |-> << >>, id |-> << >>,
    ids |-> << >>, ctx |-> 0, key |-> << >>, stage |-> 0, jobs |-> << >>,
    next |-> << >>,
    rows |-> EmptyBag, agg |-> << >>, pre |-> EmptyBag, gone |-> EmptyBag,
    out |-> NoOut ]

NoPrev ==
  [ op |-> "none", tmpls |-> << >>, given |-> << >>, reuse |-> FALSE,
    id |-> << >>, out |-> NoOut ]

Finished(call) == call.pc \in { "done", "failed" }

\* the caller may issue its next call
Free(c) == calls[c].pc = "idle"

Summary(call) ==
  IF Finished(call) /\ call.op \in { "find", "findById" }
  THEN [ op |-> call.op, tmpls |-> call.tmpls, given |-> call.given,
         reuse |-> call.reuse, id |-> call.id, out |-> call.out ]
  ELSE NoPrev

\* --------------------------------------------------------- retrieveContext

\* retrieveContext without the null check: a missing context falls back to
\* the first tenant's
RetrieveOne_default(h, cx, o) ==
  LET k == IF Has(h[o], APC) THEN Get(h[o], APC) ELSE 1
  IN  [ ok |-> TRUE, err |-> "",
        heap |-> [ h EXCEPT ![o] = Del(@, APC) ],
        ctxs |-> [ cx EXCEPT ![k].tableName = getTableName(cx[k]) ],
        ctx |-> k ]

\* retrieveContext that leaves the carrier on the payload
RetrieveOne_keep(h, cx, o) ==
  IF ~Has(h[o], APC)
  THEN [ ok |-> FALSE, err |-> "MissingContext", heap |-> h, ctxs |-> cx, ctx |-> 0 ]
  ELSE LET k == Get(h[o], APC)
       IN  [ ok |-> TRUE, err |-> "",
             heap |-> h,
             ctxs |-> [ cx EXCEPT ![k].tableName = getTableName(cx[k]) ],
             ctx |-> k ]

\* the body run on one object (the non-array branch, and each turn of the
\* array branch's map), on payload object o of the caller's objects h
RetrieveOne(h, cx, o) ==
  IF ~Has(h[o], APC)
  THEN [ ok |-> FALSE, err |-> "MissingContext", heap |-> h, ctxs |-> cx, ctx |-> 0 ]
  ELSE IF "getTableName" \notin config.bigQueryConfig.has
  THEN \* this.bigQueryConfig.getTableName is not there to call: the carrier
       \* is already deleted
       [ ok |-> FALSE, err |-> "TypeError",
         heap |-> [ h EXCEPT ![o] = Del(@, APC) ], ctxs |-> cx, ctx |-> 0 ]
  ELSE LET k == Get(h[o], APC)
       IN  [ ok |-> TRUE, err |-> "",
             heap |-> [ h EXCEPT ![o] = Del(@, APC) ],
             ctxs |-> [ cx EXCEPT ![k].tableName = getTableName(cx[k]) ],
             ctx |-> k ]

\* the array branch: params.map(...) in order, the first throw ends it and
\* keeps what the earlier elements already changed; .shift() is the first
\* element's context, undefined (0) for the empty list
RECURSIVE RetrieveEach(_, _, _, _)
RetrieveEach(h, cx, list, first) ==
  IF list = << >> THEN [ ok |-> TRUE, err |-> "", heap |-> h, ctxs |-> cx, ctx |-> first ]
  ELSE LET r == RetrieveOne(h, cx, Head(list))
       IN  IF ~r.ok THEN r
           ELSE RetrieveEach(r.heap, r.ctxs, Tail(list),
                             IF first = 0 THEN r.ctx ELSE first)

retrieveContext(h, cx, list, isArray) ==
  IF isArray THEN RetrieveEach(h, cx, list, 0) ELSE RetrieveOne(h, cx, list[1])

\* ------------------------------------------------------ the caller's inputs

\* the hook builds { adapter_private_context, ...params }; k = 0: no hook ran
Fresh(j, k) ==
  LET params == IF j = 0 THEN << >> ELSE caller.pool[j]
  IN  IF k = 0 THEN params ELSE << << APC, k >> >> \o params

CtxChoices == { 0 } \cup caller.ctxIds

\* a payload for a call of caller c: a new object built from a template
\* (or, from = {0}, from nothing but the context), or the object of the
\* caller's latest call, passed again as it now is
Payloads(c, from) ==
  { [ obj |-> Fresh(j, k), tmpl |-> j, given |-> k, reuse |-> FALSE ] :
      j \in from, k \in CtxChoices }
  \cup
  ( IF heap[c] # << >> /\ calls[c].tmpls[1] \in from
    THEN { [ obj |-> heap[c][1], tmpl |-> calls[c].tmpls[1],
             given |-> IF Has(heap[c][1], APC) THEN Get(heap[c][1], APC) ELSE 0,
             reuse |-> TRUE ] }
    ELSE {} )

Ids == { VX, VY }
IdLists == { << >>, << VX >>, << VX, VY >> }

\* a call on one payload object begins: the method runs up to its first
\* await, which is retrieveContext, and suspends or throws
Begin(c, op, p, whereObj, id, ids) ==
  LET r == retrieveContext(<< p.obj >>, ctxs, << 1 >>, FALSE)
  IN  /\ Free(c)
      /\ heap' = [ heap EXCEPT ![c] = r.heap ]
      /\ ctxs' = r.ctxs
      /\ calls' = [ calls EXCEPT ![c] =
           [ InitCall EXCEPT !.op = op, !.tmpls = << p.tmpl >>,
               !.given = << p.given >>, !.reuse = p.reuse, !.args = << 1 >>,
               !.where = whereObj, !.id = id, !.ids = ids, !.ctx = r.ctx,
               !.pc = IF r.ok THEN "ctx" ELSE "failed",
               !.out = IF r.ok THEN NoOut ELSE Failure(r.err) ] ]
      /\ UNCHANGED << config, caller, tables, prev, sortCase >>

\* inserts of n rows are offered while no table would exceed MaxRows rows
RoomToInsert(n) == \A t \in TableNames : BagCardinality(tables[t]) + n <= MaxRows

\* -------------------------------------------------------- public operations

find(c) ==
  \E p \in Payloads(c, DOMAIN caller.pool) : Begin(c, "find", p, << >>, << >>, << >>)

findOne(c) ==
  \E p \in Payloads(c, DOMAIN caller.pool) : Begin(c, "findOne", p, << >>, << >>, << >>)

findById(c) ==
  \E p \in Payloads(c, { 0 }), id \in Ids : Begin(c, "findById", p, << >>, id, << >>)

findByIds(c) ==
  \E p \in Payloads(c, { 0 }), idList \in IdLists :
    Begin(c, "findByIds", p, << >>, << >>, idList)

count(c) ==
  \E p \in Payloads(c, DOMAIN caller.pool) : Begin(c, "count", p, << >>, << >>, << >>)

insert(c) ==
  /\ RoomToInsert(1)
  /\ \E p \in Payloads(c, DOMAIN caller.pool) : Begin(c, "insert", p, << >>, << >>, << >>)

\* insertMany(entities): n new entity objects, or (alias) the same new
\* object at every place of the list
insertMany(c) ==
  /\ Free(c)
  /\ \E n \in 0..MaxList :
     \E es \in [ 1..n -> (DOMAIN caller.pool) \X CtxChoices ] :
     \E alias \in BOOLEAN :
       /\ RoomToInsert(n)
       /\ alias => n >= 2 /\ \A i \in 1..n : es[i] = es[1]
       /\ LET objs == IF alias THEN << Fresh(es[1][1], es[1][2]) >>
                      ELSE [ i \in 1..n |-> Fresh(es[i][1], es[i][2]) ]
              list == [ i \in 1..n |-> IF alias THEN 1 ELSE i ]
              r == retrieveContext(objs, ctxs, list, TRUE)
              ok == r.ok /\ r.ctx # 0
          IN  /\ heap' = [ heap EXCEPT ![c] = r.heap ]
              /\ ctxs' = r.ctxs
              /\ calls' = [ calls EXCEPT ![c] =
                   [ InitCall EXCEPT !.op = "insertMany",
                       !.tmpls = [ i \in 1..n |-> es[i][1] ],
                       !.given = [ i \in 1..n |-> es[i][2] ],
                       !.args = list, !.ctx = r.ctx,
                       !.pc = IF ok THEN "ctx" ELSE "failed",
                       !.out = IF ok THEN NoOut
                               ELSE Failure(IF r.ok THEN "MissingContext" ELSE r.err) ] ]
  /\ UNCHANGED << config, caller, tables, prev, sortCase >>

\* updateMany(where, update): the context is read from update; where is
\* only read
updateMany(c) ==
  \E p \in Payloads(c, DOMAIN caller.pool) :
  \E j \in DOMAIN caller.pool, k \in CtxChoices :
    Begin(c, "updateMany", p, Fresh(j, k), << >>, << >>)

updateById(c) ==
  \E p \in Payloads(c, DOMAIN caller.pool), id \in Ids :
    Begin(c, "updateById", p, << >>, id, << >>)

removeMany(c) ==
  \E p \in Payloads(c, DOMAIN caller.pool) :
    Begin(c, "removeMany", p, << >>, << >>, << >>)

removeById(c) ==
  \E p \in Payloads(c, { 0 }), id \in Ids : Begin(c, "removeById", p, << >>, id, << >>)

\* ------------------------------------------------------ building the texts

\* the operation awaits getIdKey before it builds its text
NeedsIdKey(call, h) ==
  \/ call.op \in { "findById", "findByIds", "insert", "insertMany",
                   "updateById", "removeById", "count" }
  \/ /\ call.op = "find"
     /\ Has(h[1], K_query)
     /\ Has(Get(h[1], K_query), K_id)
     /\ Truthy(Get(Get(h[1], K_query), K_id))

\* entity[primaryKey] of each entity of the list
KeyValues(h, list, primaryKey) == [ i \in DOMAIN list |-> Get(h[list[i]], primaryKey) ]

\* knex throws while compiling: an undefined binding in whereIn (an entity
\* without the primary key), an update without values
BuildThrows(call, h) ==
  CASE call.op \in { "insert", "insertMany" } ->
         \E i \in DOMAIN call.args : ~Has(h[call.args[i]], call.key)
    [] call.op \in { "updateMany", "updateById" } -> h[1] = << >>
    [] OTHER -> FALSE

\* the WHERE object of the update and remove operations
WhereOf(call, h) ==
  CASE call.op = "updateMany" -> call.where
    [] call.op = "removeMany" -> h[1]
    [] OTHER -> << << call.key, call.id >> >>

\* the text of the operation's (first) job; t is parsedContext.tableName
TextOf(call, h, t, cfg) ==
  CASE call.op \in { "find", "count" } ->
         formatQuery(toString(
           CursorQuery(h[1], t, call.op = "count", call.key, cfg.queryBlacklist)))
    [] call.op = "findOne" ->
         formatQuery(toString(q_limit(q_where(bq(t), h[1]), 1)))
    [] call.op = "findById" ->
         formatQuery(toString(q_limit(q_where(bq(t), << << call.key, call.id >> >>), 1)))
    [] call.op = "findByIds" ->
         formatQuery(toString(q_whereIn(bq(t), call.key, call.ids)))
    [] call.op = "insert" ->
         formatQuery(
           formatQuery(toString(q_insert(bq(t),
              << << << call.key, Get(h[1], call.key) >> >> >>)))
           \o formatQuery(toString(q_whereIn(bq(t), call.key,
              << Get(h[1], call.key) >>))))
    [] call.op = "insertMany" ->
         formatQuery(
           formatQuery(toString(q_insert(bq(t),
              [ i \in DOMAIN call.args |-> h[call.args[i]] ])))
           \o formatQuery(toString(q_whereIn(bq(t), call.key,
              KeyValues(h, call.args, call.key)))))
    [] call.op \in { "updateMany", "updateById" } ->
         formatQuery(
           formatQuery(toString(q_update(q_where(bq(t), WhereOf(call, h)), h[1])))
           \o formatQuery(toString(q_where(bq(t), WhereOf(call, h)))))
    [] call.op \in { "removeMany", "removeById" } ->
         formatQuery(formatQuery(toString(q_where(bq(t), WhereOf(call, h)))))

\* a second text that repeats the pre-image SELECT before the DELETE
DeleteTextOf_combined(call, h, t) ==
  formatQuery(toString(q_where(bq(t), WhereOf(call, h)))
              \o toString(q_del(q_where(bq(t), WhereOf(call, h)))))

\* compiledQuery of removeMany and removeById: the DELETE
DeleteTextOf(call, h, t) ==
  formatQuery(formatQuery(toString(q_del(q_where(bq(t), WhereOf(call, h))))))

\* a configured bigQueryConfig.queryWrapper(query, location): a text rewrite
\* that puts a pragma naming the location in front of the text
queryWrapper(query, location) == [ query EXCEPT ![1].pragma = << location >> ]

\* options of createQueryJob, as query(query, queryOptions) builds them: text
\* is options.query, the text handed to the engine; query is the text query()
\* was called with; logged is the text of the job's log line once written
JobOf(query, location) ==
  LET formattedQuery == IF config.queryWrapper THEN queryWrapper(query, location)
                        ELSE query
  IN  [ query |-> query, text |-> formattedQuery, location |-> location,
        logged |-> << >> ]

\* ------------------------------------------------------ the call continues

\* await this.bigQueryConfig.getIdKey()
getIdKey(c) ==
  /\ calls[c].pc = "ctx"
  /\ NeedsIdKey(calls[c], heap[c])
  /\ calls' = [ calls EXCEPT ![c] =
       IF "getIdKey" \in config.bigQueryConfig.has
       THEN [ @ EXCEPT !.key = config.idKey, !.pc = "key" ]
       ELSE [ @ EXCEPT !.pc = "failed", !.out = Failure("TypeError") ] ]
  /\ UNCHANGED << config, caller, ctxs, heap, tables, prev, sortCase >>

\* a createQueryJob that reads the context from a place every call writes:
\* it takes the context another call in flight has resolved, when there is one
createQueryJob_sharedContext(c) ==
  LET call == calls[c]
      others == { d \in Slots \ { c } : calls[d].ctx # 0 }
      cx == IF others = {} THEN ctxs[call.ctx]
            ELSE ctxs[calls[CHOOSE d \in others : TRUE].ctx]
  IN  /\ \/ call.pc = "key"
         \/ call.pc = "ctx" /\ ~NeedsIdKey(call, heap[c])
      /\ calls' = [ calls EXCEPT ![c] =
           IF BuildThrows(call, heap[c])
           THEN [ call EXCEPT !.pc = "failed", !.out = Failure("BuildError") ]
           ELSE [ call EXCEPT !.pc = "submitted", !.stage = 1,
                    !.jobs = << JobOf(TextOf(call, heap[c], cx.tableName, config),
                                      cx.region) >>,
                    !.next = IF call.op \in { "removeMany", "removeById" }
                             THEN DeleteTextOf(call, heap[c], cx.tableName)
                             ELSE << >> ] ]
      /\ UNCHANGED << config, caller, ctxs, heap, tables, prev, sortCase >>

\* the texts are built and the first is handed, through query(), to
\* createQueryJob; a remove operation keeps its DELETE text for its second job
createQueryJob(c) ==
  LET call == calls[c]
      cx == ctxs[call.ctx]
  IN  /\ \/ call.pc = "key"
         \/ call.pc = "ctx" /\ ~NeedsIdKey(call, heap[c])
      /\ calls' = [ calls EXCEPT ![c] =
           IF BuildThrows(call, heap[c])
           THEN [ call EXCEPT !.pc = "failed", !.out = Failure("BuildError") ]
           ELSE [ call EXCEPT !.pc = "submitted", !.stage = 1,
                    !.jobs = << JobOf(TextOf(call, heap[c], cx.tableName, config),
                                      cx.region) >>,
                    !.next = IF call.op \in { "removeMany", "removeById" }
                             THEN DeleteTextOf(call, heap[c], cx.tableName)
                             ELSE << >> ] ]
      /\ UNCHANGED << config, caller, ctxs, heap, tables, prev, sortCase >>

\* an engine that holds other calls' jobs back while a remove is between its
\* pre-image read and its DELETE
jobRuns_locked(c) ==
  LET call == calls[c]
      job == call.jobs[Len(call.jobs)]
      t == job.text[1].table
  IN  /\ call.pc = "submitted"
      /\ \A d \in Slots \ { c } :
           ~(calls[d].op \in { "removeMany", "removeById" } /\ calls[d].stage = 1
             /\ calls[d].pc \in { "ran" })
      /\ \A d \in Slots \ { c } :
           ~(calls[d].op \in { "removeMany", "removeById" } /\ calls[d].stage = 2
             /\ calls[d].pc = "submitted")
      /\ IF t \in TableNames /\ \A i \in DOMAIN job.text : ValidStmt(job.text[i])
         THEN \E o \in JobOutcomes(job.text, tables[t]) :
                /\ tables' = [ tables EXCEPT ![t] = o.table ]
                /\ calls' = [ calls EXCEPT ![c].pc = "ran", ![c].rows = o.rows,
                                           ![c].agg = o.agg,
                                           ![c].gone = tables[t] (-) o.table,
                                           ![c].jobs[Len(call.jobs)].logged =
                                              << job.query >> ]
         ELSE /\ tables' = tables
              /\ calls' = [ calls EXCEPT ![c].pc = "failed",
                                         ![c].out = Failure("EngineError") ]
      /\ UNCHANGED << config, caller, ctxs, heap, prev, sortCase >>

\* createQueryJob has resolved, the log line "Job ... started for query
\* ${query}" is written and the engine runs the job the call waits for; gone
\* records the rows the job took out of the table
jobRuns(c) ==
  LET call == calls[c]
      job == call.jobs[Len(call.jobs)]
      t == job.text[1].table
  IN  /\ call.pc = "submitted"
      /\ IF t \in TableNames /\ \A i \in DOMAIN job.text : ValidStmt(job.text[i])
         THEN \E o \in JobOutcomes(job.text, tables[t]) :
                /\ tables' = [ tables EXCEPT ![t] = o.table ]
                /\ calls' = [ calls EXCEPT ![c].pc = "ran", ![c].rows = o.rows,
                                           ![c].agg = o.agg,
                                           ![c].gone = tables[t] (-) o.table,
                                           ![c].jobs[Len(call.jobs)].logged =
                                              << job.query >> ]
         ELSE /\ tables' = tables
              /\ calls' = [ calls EXCEPT ![c].pc = "failed",
                                         ![c].out = Failure("EngineError") ]
      /\ UNCHANGED << config, caller, ctxs, heap, prev, sortCase >>

\* results.shift() of findOne and findById
Shift(rows) ==
  IF rows = EmptyBag THEN Failure("undefined")
  ELSE [ NoOut EXCEPT !.kind = "row", !.rows = rows ]

\* shaping that returns the rows of the last job for every operation
Shape_lastJob(call) ==
  CASE call.op \in { "findOne", "findById" } -> Shift(call.rows)
    [] call.op = "count" ->
         IF call.agg = << >> THEN Failure("TypeError")
         ELSE [ NoOut EXCEPT !.kind = "number", !.num = call.agg[1] ]
    [] OTHER -> [ NoOut EXCEPT !.kind = "rows", !.rows = call.rows ]

\* what the operation returns from the rows of its last job
Shape(call) ==
  CASE call.op \in { "findOne", "findById" } -> Shift(call.rows)
    [] call.op = "count" ->
         IF call.agg = << >> THEN Failure("TypeError")
         ELSE [ NoOut EXCEPT !.kind = "number", !.num = call.agg[1] ]
    [] call.op \in { "removeMany", "removeById" } ->
         [ NoOut EXCEPT !.kind = "rows", !.rows = call.pre ]
    [] OTHER -> [ NoOut EXCEPT !.kind = "rows", !.rows = call.rows ]

\* job.getQueryResults() resolves: a remove operation whose pre-image has
\* arrived submits its DELETE, every other call returns
getQueryResults(c) ==
  LET call == calls[c]
      cx == ctxs[call.ctx]
  IN  /\ call.pc = "ran"
      /\ calls' = [ calls EXCEPT ![c] =
           IF call.op \in { "removeMany", "removeById" } /\ call.stage = 1
           THEN [ call EXCEPT !.pc = "submitted", !.stage = 2, !.pre = call.rows,
                    !.jobs = Append(@, JobOf(call.next, cx.region)) ]
           ELSE LET out == Shape(call)
                IN  [ call EXCEPT !.out = out,
                        !.pc = IF out.kind = "TypeError" THEN "failed" ELSE "done" ] ]
      /\ UNCHANGED << config, caller, ctxs, heap, tables, prev, sortCase >>

\* the promise settles and the caller takes the result: it keeps the first
\* payload object (to pass it again) and the read it just got back
settle(c) ==
  /\ Finished(calls[c])
  /\ prev' = Summary(calls[c])
  /\ heap' = [ heap EXCEPT ![c] = IF @ = << >> THEN @ ELSE << @[1] >> ]
  /\ calls' = [ calls EXCEPT ![c] =
       [ InitCall EXCEPT !.tmpls = IF heap[c] = << >> THEN << >>
                                   ELSE << calls[c].tmpls[1] >> ] ]
  /\ UNCHANGED << config, caller, ctxs, tables, sortCase >>

\* ------------------------------------------------------------ specification

\* templates of the calling service: two entities, an update without the
\* primary key
E1 == << << ColK, VX >>, << ColN, VX >> >>
E2 == << << ColK, VY >> >>
E3 == << << ColN, VY >> >>

NoSort == [ ordering |-> << >>, sep |-> " ", out |-> << >> ]

Init ==
  /\ config = Configured(ColK, << >>, FALSE)
  /\ caller = [ pool |-> << E1, E2, E3 >>, ctxIds |-> { 1 } ]
  /\ ctxs = Contexts0
  /\ heap = [ c \in Slots |-> << >> ]
  /\ tables = [ t \in TableNames |-> EmptyBag ]
  /\ calls = [ c \in Slots |-> InitCall ]
  /\ prev = NoPrev
  /\ sortCase = NoSort

Step(c) ==
  \/ find(c)
  \/ findOne(c)
  \/ findById(c)
  \/ findByIds(c)
  \/ count(c)
  \/ insert(c)
  \/ insertMany(c)
  \/ updateMany(c)
  \/ updateById(c)
  \/ removeMany(c)
  \/ removeById(c)
  \/ getIdKey(c)
  \/ createQueryJob(c)
  \/ jobRuns(c)
  \/ getQueryResults(c)
  \/ settle(c)

\* one caller, one call at a time
Next == Step(1)

Spec == Init /\ [][Next]_vars

\* ----------------------------------------- find and count on richer filters

\* an object from optional parts: each part is << >> (key absent) or a
\* one-pair object
Obj(parts) ==
  LET F[i \in 0..Len(parts)] == IF i = 0 THEN << >> ELSE F[i - 1] \o parts[i]
  IN  F[Len(parts)]

Opt(key, values) == { << >> } \cup { << << key, v >> >> : v \in values }

Queries ==
  { << >>,
    << << K_id, VX >> >>,
    << << ColA, VY >> >>,
    << << ColA, VY >>, << K_id, VX >> >>,
    << << ColK, VX >> >> }

\* filters that differ in what they select
SelectFilters ==
  { Obj(<< q, s, f >>) :
      q \in Opt(K_query, Queries),
      s \in Opt(K_search, { << >>, VX }),
      f \in Opt(K_searchFields,
                { << "array", << ColN >> >>, << "array", << ColN, ColK >> >>,
                  << "string", << "n", " ", "a" >> >> }) }

\* filters that differ in sorting and paging
PageFilters ==
  { Obj(<< q, s, o, l, f >>) :
      q \in Opt(K_query, { << << ColA, VY >> >> }),
      s \in Opt(K_sort, { << "string", << "-", "n" >> >>,
                          << "object", << << ColK, 1 >> >> >> }),
      o \in Opt(K_offset, { << "number", 0 >>, << "number", 1 >>, << "number", -1 >> }),
      l \in Opt(K_limit, { << "number", 0 >>, << "number", 1 >>, << "number", -1 >>,
                           << "string", << "1" >> >> }),
      f \in { << >>, << << K_search, VX >>,
                        << K_searchFields, << "array", << ColN >> >> >> >> } }

Row(k, n, a) == (ColK :> k) @@ (ColN :> n) @@ (ColA :> a)

\* rows a tenant table may hold when the adapter starts
CursorRows == { Row(VX, VX, VY), Row(VY, VXY, VX), Row(VXY, VY, VY) }

CursorTables ==
  { SetToBag(S) : S \in { R \in SUBSET CursorRows : Cardinality(R) <= MaxRows } }

InitCursor ==
  /\ \E f \in SelectFilters \cup PageFilters :
     \E bl \in { << >>, << ColA >>, << ColK >> } :
       /\ f \in PageFilters => bl = << >>
       /\ config = Configured(ColK, bl, FALSE)
       /\ caller = [ pool |-> << f >>, ctxIds |-> { 1 } ]
  /\ ctxs = Contexts0
  /\ heap = [ c \in Slots |-> << >> ]
  /\ \E tbl \in CursorTables :
       tables = [ t \in TableNames |->
                    IF t = getTableName(Contexts0[1]) THEN tbl ELSE EmptyBag ]
  /\ calls = [ c \in Slots |-> InitCall ]
  /\ prev = NoPrev
  /\ sortCase = NoSort

NextCursor ==
  \/ find(1)
  \/ count(1)
  \/ getIdKey(1)
  \/ createQueryJob(1)
  \/ jobRuns(1)
  \/ getQueryResults(1)
  \/ settle(1)

SpecCursor == InitCursor /\ [][NextCursor]_vars

\* ---------------------------------------------- the three shapes of a sort

\* logical orderings: one to MaxSortCols distinct columns, each with a
\* direction
Orderings ==
  UNION { { L \in [ 1..n -> TableCols \X { "asc", "desc" } ] :
              \A i, j \in 1..n : i # j => L[i][1] # L[j][1] } :
          n \in 1..MaxSortCols }

\* the token of a (column, direction) pair: '-' prefix for descending
Token(pair) == IF pair[2] = "desc" THEN << "-" >> \o pair[1] ELSE pair[1]

\* the ordering written as one string, the tokens joined by sep
RECURSIVE Joined(_, _)
Joined(L, sep) ==
  IF Len(L) = 1 THEN Token(L[1])
  ELSE Token(L[1]) \o << sep >> \o Joined(Tail(L), sep)

AsString(L, sep) == << "string", Joined(L, sep) >>

AsArray(L) == << "array", [ i \in DOMAIN L |-> Token(L[i]) ] >>

AsObject(L) ==
  << "object", [ i \in DOMAIN L |-> << L[i][1], IF L[i][2] = "asc" THEN 1 ELSE -1 >> ] >>

\* the ORDER BY list transformSort emits for a sort parameter
Emitted(paramSort) == transformSort(bq(getTableName(Contexts0[1])), paramSort).orders

InitSort ==
  /\ config = Configured(ColK, << >>, FALSE)
  /\ caller = [ pool |-> << >>, ctxIds |-> { 1 } ]
  /\ ctxs = Contexts0
  /\ heap = [ c \in Slots |-> << >> ]
  /\ tables = [ t \in TableNames |-> EmptyBag ]
  /\ calls = [ c \in Slots |-> InitCall ]
  /\ prev = NoPrev
  /\ \E L \in Orderings, sep \in { " ", "," } :
       sortCase = [ ordering |-> L, sep |-> sep, out |-> << >> ]

Sorted(shape) == \E i \in DOMAIN sortCase.out : sortCase.out[i][1] = shape

SortOut(shape) ==
  sortCase.out[CHOOSE i \in DOMAIN sortCase.out : sortCase.out[i][1] = shape][2]

\* transformSort is called with the ordering in one of its three shapes
sortWith(shape, paramSort) ==
  /\ sortCase.ordering # << >>
  /\ ~Sorted(shape)
  /\ sortCase' = [ sortCase EXCEPT !.out = Append(@, << shape, Emitted(paramSort) >>) ]
  /\ UNCHANGED << config, caller, ctxs, heap, tables, calls, prev >>

sortString == sortWith("string", AsString(sortCase.ordering, sortCase.sep))

sortArray == sortWith("array", AsArray(sortCase.ordering))

sortObject == sortWith("object", AsObject(sortCase.ordering))

NextSort == sortString \/ sortArray \/ sortObject

SpecSort == InitSort /\ [][NextSort]_vars

\* ------------------------------------------------------------------ claims

PublicOps ==
  { "find", "findOne", "findById", "findByIds", "count", "insert",
    "insertMany", "updateMany", "updateById", "removeMany", "removeById" }

\* the payload the call read its context from carried none: for insertMany
\* the list was empty or an element had none
LacksContext(call) ==
  IF call.op = "insertMany"
  THEN call.given = << >> \/ \E i \in DOMAIN call.given : call.given[i] = 0
  ELSE call.given[1] = 0

\* C1: in each of the eleven public operations, a call whose payload carries
\* no adapter_private_context (insertMany: an empty list, or an element
\* without it) has failed with the missing-context error and has submitted
\* no job.
C1_MissingContextAborts ==
  \A c \in Slots :
    calls[c].op \in PublicOps /\ LacksContext(calls[c]) =>
      /\ calls[c].pc = "failed"
      /\ calls[c].out.kind = "MissingContext"
      /\ calls[c].jobs = << >>

\* an insertMany whose first entity carried the context and whose second did
\* not has failed
C1_Witness ==
  \E c \in Slots :
    /\ calls[c].op = "insertMany"
    /\ Len(calls[c].given) = 2
    /\ calls[c].given[1] # 0
    /\ calls[c].given[2] = 0
    /\ calls[c].pc = "failed"

\* the filter template the call's payload was built from
FilterOf(call) == caller.pool[call.tmpls[1]]

\* the query of a filter, the empty object when it has none
QueryOf(filter) == IF Has(filter, K_query) THEN Get(filter, K_query) ELSE << >>

\* the WHERE clause list of the statement a find or count submitted
SubmittedWheres(call) == call.jobs[1].text[1].wheres

CursorSubmitted(call) == call.op \in { "find", "count" } /\ call.jobs # << >>

\* C2: for every find or count whose filter's query contains the key id (the
\* primary key not being denylisted), the WHERE of the submitted statement
\* has the primary-key column equal to the value of id and has no clause on
\* the literal column id.
C2_IdRenamedAndDropped ==
  \A c \in Slots :
    LET call == calls[c]
    IN  /\ CursorSubmitted(call)
        /\ Has(QueryOf(FilterOf(call)), K_id)
        /\ config.idKey \notin Range(config.queryBlacklist)
        => LET w == SubmittedWheres(call)
           IN  /\ \E i \in DOMAIN w :
                    /\ w[i].col = config.idKey
                    /\ w[i].op = "="
                    /\ w[i].val = << Get(QueryOf(FilterOf(call)), K_id) >>
               /\ \A i \in DOMAIN w : w[i].col # K_id

\* C3: for every find or count and every column of the configured
\* queryBlacklist, no clause of the WHERE of the submitted statement is on
\* that column, whether the column came from query, from the renamed id or
\* from searchFields.
C3_DenylistNeverInWhere ==
  \A c \in Slots :
    CursorSubmitted(calls[c]) =>
      \A i \in DOMAIN SubmittedWheres(calls[c]) :
        SubmittedWheres(calls[c])[i].col \notin Range(config.queryBlacklist)

\* C4: once transformSort has been given the three shapes of one logical
\* ordering, the three ORDER BY lists it emitted are the ordering's
\* (column, direction) pairs in order, hence equal.
C4_SortShapesAgree ==
  Sorted("string") /\ Sorted("array") /\ Sorted("object") =>
    /\ SortOut("string") = sortCase.ordering
    /\ SortOut("array") = sortCase.ordering
    /\ SortOut("object") = sortCase.ordering

\* the columns a filter searches in
SearchFieldsOf(filter) ==
  IF ~Has(filter, K_searchFields) THEN << >>
  ELSE LET sf == Get(filter, K_searchFields)
       IN  IF sf[1] = "string" THEN Split(sf[2]) ELSE sf[2]

\* the filter has a non-empty search, a non-empty list of search fields and
\* a query of plain column equalities, and neither pages nor denylists
SearchWithQuery(filter) ==
  /\ Has(filter, K_search) /\ Get(filter, K_search) # << >>
  /\ SearchFieldsOf(filter) # << >>
  /\ Has(filter, K_query) /\ Get(filter, K_query) # << >>
  /\ ~Has(Get(filter, K_query), K_id)
  /\ ~Has(filter, K_limit) /\ ~Has(filter, K_offset)
  /\ config.queryBlacklist = << >>

\* row satisfies every equality of the query and at least one LIKE
QueryAndSearch(row, filter) ==
  /\ \A i \in DOMAIN Get(filter, K_query) :
       row[Get(filter, K_query)[i][1]] = Get(filter, K_query)[i][2]
  /\ \E i \in DOMAIN SearchFieldsOf(filter) :
       /\ row[SearchFieldsOf(filter)[i]] # Null
       /\ Contains(row[SearchFieldsOf(filter)[i]], Get(filter, K_search))

\* the table the call was routed to
TableOf(call) == tables[getTableName(Contexts0[call.ctx])]

\* C5: a find with a search, search fields and a query returns exactly the
\* rows of the table that satisfy every equality of the query AND at least
\* one 'field LIKE %search%'; a count returns their number.
C5_SearchAndedWithQuery ==
  \A c \in Slots :
    LET call == calls[c]
        want == BagFilter(TableOf(call), LAMBDA r : QueryAndSearch(r, FilterOf(call)))
    IN  /\ call.op \in { "find", "count" }
        /\ call.pc = "done"
        /\ SearchWithQuery(FilterOf(call))
        => IF call.op = "find" THEN call.out.rows = want
           ELSE call.out.num = BagCardinality(want)

\* the filter with limit and offset removed
Unpaged(filter) == Del(Del(filter, K_limit), K_offset)

\* the rows find selects for a filter that does not page
FindRows(call, filter) ==
  BagFilter(TableOf(call),
            LAMBDA r : Matches(r, CursorQuery(filter, call.jobs[1].text[1].table, FALSE,
                                              config.idKey, config.queryBlacklist).wheres))

\* C6: a count whose payload carried the context and whose statement the
\* engine accepted returns a number, the number of rows find returns for
\* the same filter with limit and offset removed; limit or offset in the
\* filter never makes it fail.
C6_CountIsUnpagedFindSize ==
  \A c \in Slots :
    LET call == calls[c]
    IN  /\ call.op = "count"
        /\ Finished(call)
        /\ call.out.kind \notin { "MissingContext", "EngineError" }
        => /\ call.out.kind = "number"
           /\ call.out.num = BagCardinality(FindRows(call, Unpaged(FilterOf(call))))

\* the call is a removeById issued directly after a findById of the same id
\* for the same tenant returned
RemoveAfterFind(call) ==
  /\ call.op = "removeById"
  /\ call.given[1] # 0
  /\ prev.op = "findById"
  /\ prev.id = call.id
  /\ prev.given = call.given

\* C7 (original): removeById issued directly after findById of the same id
\* returns exactly the rows that findById returned.
C7_PreImageEqualsPriorRead ==
  \A c \in Slots :
    RemoveAfterFind(calls[c]) /\ calls[c].pc = "done" =>
      calls[c].out.rows = prev.out.rows

\* C7 (amended): with no other writer, the pre-image removeById reads is
\* every row of the table whose primary key is X; removeById returns those
\* rows and leaves none of them in the table; the findById just before
\* returned one of them (nothing when there is none), so the two results are
\* equal exactly when at most one row has the primary key X.
C7_PreImageCoversPriorRead ==
  \A c \in Slots :
    LET call == calls[c]
    IN  /\ call.op = "removeById" /\ call.pc = "ran" /\ call.stage = 1 =>
             call.rows = BagFilter(TableOf(call), LAMBDA r : r[config.idKey] = call.id)
        /\ RemoveAfterFind(call) /\ call.pc = "done" =>
             /\ call.out.kind = "rows"
             /\ \A r \in BagToSet(call.out.rows) : r[config.idKey] = call.id
             /\ \A r \in BagToSet(TableOf(call)) : r[config.idKey] # call.id
             /\ prev.out.rows \sqsubseteq call.out.rows
             /\ BagCardinality(prev.out.rows) =
                  IF call.out.rows = EmptyBag THEN 0 ELSE 1

\* removeById returned two rows sharing the primary key after findById had
\* returned one of them
C7_Witness ==
  \E c \in Slots :
    /\ RemoveAfterFind(calls[c])
    /\ calls[c].pc = "done"
    /\ BagCardinality(calls[c].out.rows) = 2
    /\ BagCardinality(prev.out.rows) = 1

\* C8: a finished insert or insertMany returns as many rows as entities were
\* passed, each with the primary-key value of one of the entities.
C8_InsertReturnsOnePerEntity ==
  \A c \in Slots :
    LET call == calls[c]
    IN  call.op \in { "insert", "insertMany" } /\ call.pc = "done" =>
          /\ BagCardinality(call.out.rows) = Len(call.args)
          /\ \A r \in BagToSet(call.out.rows) :
               \E i \in DOMAIN call.tmpls :
                 r[config.idKey] = Get(caller.pool[call.tmpls[i]], config.idKey)

UpdateSubmitted(call) ==
  call.op \in { "updateMany", "updateById" } /\ call.jobs # << >>

\* the where the caller supplied: updateMany's first argument, the
\* primary-key equality of updateById
SuppliedWhere(call) ==
  IF call.op = "updateMany" THEN call.where
  ELSE << << config.idKey, call.id >> >>

EqualitiesOf(obj) ==
  [ i \in DOMAIN obj |-> Clause("and", obj[i][1], "=", << obj[i][2] >>) ]

\* C9: an updateMany or updateById that submitted has submitted one job,
\* whose text is an UPDATE followed by a plain SELECT on the same table with
\* the same WHERE, the equalities of the supplied where; the SET is the
\* update payload as the caller built it, without the context carrier; once
\* the call returns, it returns the rows of the table, as the update left
\* it, that satisfy the where.
C9_UpdateThenSelect ==
  \A c \in Slots :
    LET call == calls[c]
        text == call.jobs[1].text
    IN  /\ UpdateSubmitted(call) =>
             /\ Len(call.jobs) = 1
             /\ Len(text) = 2
             /\ text[1].method = "update"
             /\ text[2].method = "select"
             /\ text[2].count = << >> /\ text[2].limit = << >> /\ text[2].offset = << >>
             /\ text[1].table = text[2].table
             /\ text[1].wheres = EqualitiesOf(SuppliedWhere(call))
             /\ text[2].wheres = text[1].wheres
             /\ text[1].values = << caller.pool[call.tmpls[1]] >>
             /\ ~Has(text[1].values[1], APC)
        /\ UpdateSubmitted(call) /\ call.pc = "done" =>
             /\ call.out.kind = "rows"
             /\ call.out.rows =
                  BagFilter(TableOf(call),
                            LAMBDA r : \A i \in DOMAIN SuppliedWhere(call) :
                               r[SuppliedWhere(call)[i][1]] = SuppliedWhere(call)[i][2])

\* an updateMany returned rows that its update had changed
C9_Witness ==
  \E c \in Slots :
    /\ calls[c].op = "updateMany"
    /\ calls[c].pc = "done"
    /\ calls[c].out.rows # EmptyBag
    /\ \E r \in BagToSet(calls[c].out.rows) :
         \A i \in DOMAIN caller.pool[calls[c].tmpls[1]] :
           r[caller.pool[calls[c].tmpls[1]][i][1]] = caller.pool[calls[c].tmpls[1]][i][2]

\* the call is a find that follows a find built from the same filter whose
\* payload carried the context; its own payload is the object of the first
\* call passed again, or a newly built one carrying the same context
FindAgain(call) ==
  /\ call.op = "find"
  /\ Finished(call)
  /\ prev.op = "find"
  /\ prev.tmpls = call.tmpls
  /\ prev.given[1] # 0
  /\ call.reuse \/ call.given = prev.given

\* the filter has a positive limit or offset
Pages(filter) ==
  \/ Has(filter, K_limit) /\ PositiveNumber(Get(filter, K_limit))
  \/ Has(filter, K_offset) /\ PositiveNumber(Get(filter, K_offset))

StatementsOf(call) ==
  UNION { Range(call.jobs[j].text) : j \in DOMAIN call.jobs }

\* C11: no statement of a job submitted by any operation names the context
\* carrier adapter_private_context as a column, whichever payload object
\* (filter, where, entity, update, list element) the statement was built
\* from.
C11_CarrierNeverInStatement ==
  \A c \in Slots : \A q \in StatementsOf(calls[c]) : APC \notin StmtCols(q)

\* the value of a filter key when it is a number greater than 0, as the
\* clause it makes; no clause otherwise
ClauseOf(filter, key) ==
  IF Has(filter, key) /\ Get(filter, key)[1] = "number" /\ Get(filter, key)[2] > 0
  THEN << Get(filter, key)[2] >>
  ELSE << >>

\* C12: the statement a find or count submits has a LIMIT clause exactly
\* when limit is a number greater than 0, and an OFFSET clause exactly when
\* offset is a number greater than 0, with that value; apart from the two
\* clauses the statement is the one built for the filter without limit and
\* offset; and when neither clause is emitted the call fails only if the
\* engine rejects the statement.
C12_LimitOffsetOnlyWhenPositive ==
  \A c \in Slots :
    LET call == calls[c]
        stmt == call.jobs[1].text[1]
        bare == formatQuery(toString(
                  CursorQuery(Unpaged(FilterOf(call)), stmt.table, call.op = "count",
                              call.key, config.queryBlacklist)))[1]
    IN  CursorSubmitted(call) =>
          /\ stmt.limit = ClauseOf(FilterOf(call), K_limit)
          /\ stmt.offset = ClauseOf(FilterOf(call), K_offset)
          /\ [ stmt EXCEPT !.limit = << >>, !.offset = << >> ] = bare
          /\ stmt.limit = << >> /\ stmt.offset = << >> /\ Finished(call) =>
               IF ValidStmt(stmt) THEN call.pc = "done"
               ELSE call.out.kind = "EngineError"

\* a find whose filter has limit -1 submitted a statement without LIMIT and
\* returned
C12_Witness ==
  \E c \in Slots :
    /\ calls[c].op = "find"
    /\ calls[c].pc = "done"
    /\ Has(FilterOf(calls[c]), K_limit)
    /\ Get(FilterOf(calls[c]), K_limit) = << "number", -1 >>
    /\ calls[c].jobs[1].text[1].limit = << >>

\* ------------------------------------------------- findOne on query objects

\* the calling service passes findOne a query object; the adapter is
\* configured with or without a denylist
InitOne ==
  /\ \E q \in Queries \ { << >> } :
     \E bl \in { << >>, << ColA >>, << ColK >> } :
       /\ config = Configured(ColK, bl, FALSE)
       /\ caller = [ pool |-> << q >>, ctxIds |-> { 1 } ]
  /\ ctxs = Contexts0
  /\ heap = [ c \in Slots |-> << >> ]
  /\ \E tbl \in CursorTables :
       tables = [ t \in TableNames |->
                    IF t = getTableName(Contexts0[1]) THEN tbl ELSE EmptyBag ]
  /\ calls = [ c \in Slots |-> InitCall ]
  /\ prev = NoPrev
  /\ sortCase = NoSort

NextOne ==
  \/ findOne(1)
  \/ createQueryJob(1)
  \/ jobRuns(1)
  \/ getQueryResults(1)
  \/ settle(1)

SpecOne == InitOne /\ [][NextOne]_vars

\* the statement find submits for the filter { query }, with LIMIT 1
FindLimitedToOne(query, tableName) ==
  formatQuery(toString(
    q_limit(CursorQuery(<< << K_query, query >> >>, tableName, FALSE,
                        config.idKey, config.queryBlacklist), 1)))[1]

\* C13: the statement findOne(query) submits is the statement find submits
\* for the same query, with LIMIT 1: id is renamed to the primary-key column
\* and denylisted keys are removed in the same way; a finished findOne has
\* returned one row or the empty result, not an error of its own.
C13_FindOneIsFindLimitedToOne ==
  \A c \in Slots :
    LET call == calls[c]
        stmt == call.jobs[1].text[1]
    IN  call.op = "findOne" /\ call.jobs # << >> =>
          /\ stmt = FindLimitedToOne(FilterOf(call), stmt.table)
          /\ Finished(call) => call.out.kind \in { "row", "undefined", "EngineError" }

\* ---------------------------------------------------------------- init

\* init(broker, service): broker and service are stored first, then the
\* schema's bigQuery object is required to be there and stored
init ==
  /\ config.initOut = "none"
  /\ config' = [ config EXCEPT
       !.broker = TRUE,
       !.service = TRUE,
       !.bigQueryConfig = IF config.schema.present THEN config.schema ELSE @,
       !.initOut = IF config.schema.present THEN "ok" ELSE "ServiceSchemaError" ]
  /\ UNCHANGED << caller, ctxs, heap, tables, calls, prev, sortCase >>

\* schemas a service may come with: no bigQuery object, or one holding any
\* of the required settings
Schemas == { Undefined } \cup { Settings(TRUE, H) : H \in SUBSET Required }

\* a newly constructed adapter and the service schema it will be given
InitInit ==
  /\ \E S \in Schemas :
       config = [ Configured(ColK, << >>, FALSE) EXCEPT
                    !.schema = S, !.bigQueryConfig = Undefined,
                    !.broker = FALSE, !.service = FALSE, !.initOut = "none" ]
  /\ caller = [ pool |-> << << << K_query, << << ColA, VY >> >> >> >> >>, ctxIds |-> { 1 } ]
  /\ ctxs = Contexts0
  /\ heap = [ c \in Slots |-> << >> ]
  /\ \E tbl \in CursorTables :
       tables = [ t \in TableNames |->
                    IF t = getTableName(Contexts0[1]) THEN tbl ELSE EmptyBag ]
  /\ calls = [ c \in Slots |-> InitCall ]
  /\ prev = NoPrev
  /\ sortCase = NoSort

\* the framework calls init once, and the operations after it
NextInit ==
  \/ init
  \/ config.initOut # "none" /\ find(1)
  \/ config.initOut # "none" /\ count(1)
  \/ getIdKey(1)
  \/ createQueryJob(1)
  \/ jobRuns(1)
  \/ getQueryResults(1)
  \/ settle(1)

SpecInit == InitInit /\ [][NextInit]_vars

\* C14: once init has run, it has failed with the configuration error when
\* the bigQuery settings object or one of projectId, getRegion, getIdKey,
\* getTableName was missing, and then no call has submitted a job; it has
\* succeeded when all were present, with broker, service and configuration
\* stored.
C14_InitValidatesSettings ==
  config.initOut # "none" =>
    IF config.schema = Settings(TRUE, Required)
    THEN /\ config.initOut = "ok"
         /\ config.broker /\ config.service
         /\ config.bigQueryConfig = config.schema
    ELSE /\ config.initOut = "ServiceSchemaError"
         /\ \A c \in Slots : calls[c].jobs = << >>

\* ------------------------------------------------- failures of the gateway

\* await this.bigquery.createQueryJob(options) rejects: the job the call
\* handed over is not run
createQueryJobRejects(c) ==
  /\ calls[c].pc = "submitted"
  /\ calls' = [ calls EXCEPT ![c].pc = "failed", ![c].out = Failure("SubmitError") ]
  /\ UNCHANGED << config, caller, ctxs, heap, tables, prev, sortCase >>

\* await job.getQueryResults() rejects after the job ran
getQueryResultsRejects(c) ==
  /\ calls[c].pc = "ran"
  /\ calls' = [ calls EXCEPT ![c].pc = "failed", ![c].out = Failure("ResultsError") ]
  /\ UNCHANGED << config, caller, ctxs, heap, tables, prev, sortCase >>

\* the operations of one caller on a gateway that may fail
NextFault == Step(1) \/ createQueryJobRejects(1) \/ getQueryResultsRejects(1)

SpecFault == Init /\ [][NextFault]_vars

ErrorKinds ==
  { "MissingContext", "TypeError", "BuildError", "EngineError", "SubmitError",
    "ResultsError" }

Removes == { "removeMany", "removeById" }

\* C15: a call submits one job per stage and never one again: at most one
\* job, two for removeMany and removeById; a call that failed has rejected
\* with the error and returns nothing; a remove whose pre-image job failed
\* has submitted no DELETE, and one whose DELETE job failed does not return
\* the pre-image rows; a call that returned has no error.
C15_ErrorsAbortAndPropagate ==
  \A c \in Slots :
    LET call == calls[c]
    IN  /\ Len(call.jobs) = call.stage
        /\ call.stage <= IF call.op \in Removes THEN 2 ELSE 1
        /\ \A i, j \in DOMAIN call.jobs : i # j => call.jobs[i] # call.jobs[j]
        /\ call.pc = "failed" =>
             /\ call.out.kind \in ErrorKinds
             /\ call.out.rows = EmptyBag
             /\ call.op \in Removes /\ call.stage = 1 =>
                  \A q \in StatementsOf(call) : q.method = "select"
        /\ call.pc = "done" =>
             /\ call.out.kind \notin ErrorKinds
             /\ call.stage = IF call.op \in Removes THEN 2 ELSE 1

\* a removeMany whose pre-image had rows failed at its DELETE job and
\* returned no rows
C15_Witness ==
  \E c \in Slots :
    /\ calls[c].op = "removeMany"
    /\ calls[c].pc = "failed"
    /\ calls[c].stage = 2
    /\ calls[c].pre # EmptyBag
    /\ calls[c].out.kind \in { "SubmitError", "ResultsError" }

\* the where a remove was given: removeMany's argument as the caller built
\* it, the primary-key equality of removeById
RemoveWhere(call) ==
  IF call.op = "removeMany" THEN caller.pool[call.tmpls[1]]
  ELSE << << config.idKey, call.id >> >>

\* C16: a removeMany or removeById first submits a job holding only the
\* SELECT with the where; it submits its second job only once the results of
\* the first have arrived, and that job holds only the DELETE with the same
\* where on the same table; a call that returned has submitted exactly these
\* two jobs and returns the rows the first job read, which are the rows the
\* DELETE removed when nothing else writes.
C16_RemoveIsSelectThenDelete ==
  \A c \in Slots :
    LET call == calls[c]
        sel == call.jobs[1].text
        del == call.jobs[2].text
    IN  call.op \in Removes /\ call.jobs # << >> =>
          /\ Len(sel) = 1
          /\ sel[1].method = "select"
          /\ sel[1].wheres = EqualitiesOf(RemoveWhere(call))
          /\ sel[1].count = << >> /\ sel[1].limit = << >> /\ sel[1].offset = << >>
          /\ Len(call.jobs) = IF call.stage = 2 THEN 2 ELSE 1
          /\ call.stage = 2 =>
               /\ Len(del) = 1
               /\ del[1].method = "del"
               /\ del[1].wheres = sel[1].wheres
               /\ del[1].table = sel[1].table
               /\ \A r \in BagToSet(call.pre) : Matches(r, sel[1].wheres)
          /\ call.pc = "done" =>
               /\ call.stage = 2
               /\ call.out.kind = "rows"
               /\ call.out.rows = call.pre
               /\ \A r \in BagToSet(TableOf(call)) : ~Matches(r, sel[1].wheres)

\* a removeMany returned the rows its first job read, after two jobs
C16_Witness ==
  \E c \in Slots :
    /\ calls[c].op = "removeMany"
    /\ calls[c].pc = "done"
    /\ Len(calls[c].jobs) = 2
    /\ calls[c].out.rows # EmptyBag

\* ------------------------------------------------------ concurrent callers

\* one tenant, whose table holds a row
InitRace ==
  /\ config = Configured(ColK, << >>, FALSE)
  /\ caller = [ pool |-> << E1, E3 >>, ctxIds |-> { 1 } ]
  /\ ctxs = Contexts0
  /\ heap = [ c \in Slots |-> << >> ]
  /\ tables = [ t \in TableNames |->
                  IF t = getTableName(Contexts0[1]) THEN SetToBag({ RowOf(E1) })
                  ELSE EmptyBag ]
  /\ calls = [ c \in Slots |-> InitCall ]
  /\ prev = NoPrev
  /\ sortCase = NoSort

\* the awaits at which a call of caller c resumes
Resume(c) ==
  \/ getIdKey(c)
  \/ createQueryJob(c)
  \/ jobRuns(c)
  \/ getQueryResults(c)
  \/ settle(c)

\* one adapter instance serves a caller that removes and a caller that
\* writes; their calls interleave at their awaits
NextRace ==
  \/ removeById(1)
  \/ insert(2)
  \/ updateById(2)
  \/ \E c \in Slots : Resume(c)

SpecRace == InitRace /\ [][NextRace]_vars

\* the call is a remove between its pre-image read and its DELETE
BetweenJobs(call) ==
  /\ call.op \in Removes
  /\ \/ call.stage = 1 /\ call.pc = "ran"
     \/ call.stage = 2 /\ call.pc = "submitted"

\* C17: while a remove is between its pre-image read and its DELETE, the
\* job another call has submitted can run (nothing holds it back); a remove
\* that returned reports the rows its first job read, and the rows its
\* DELETE took out of the table are rows matching the same where, not
\* necessarily the reported ones.
C17_RemoveIsNotAtomic ==
  \A c \in Slots :
    LET call == calls[c]
    IN  /\ BetweenJobs(call) =>
             \A d \in Slots \ { c } : calls[d].pc = "submitted" => ENABLED jobRuns(d)
        /\ call.op \in Removes /\ call.pc = "done" =>
             /\ call.out.rows = call.pre
             /\ \A r \in BagToSet(call.gone) \cup BagToSet(call.out.rows) :
                  Matches(r, call.jobs[1].text[1].wheres)

\* a removeById returned a row that its DELETE did not remove, and removed a
\* row it did not return: another caller's job changed the row in between
C17_Witness ==
  \E c \in Slots :
    /\ calls[c].op = "removeById"
    /\ calls[c].pc = "done"
    /\ \E r \in BagToSet(calls[c].out.rows) : ~BagIn(r, calls[c].gone)
    /\ \E r \in BagToSet(calls[c].gone) : ~BagIn(r, calls[c].out.rows)

\* -------------------------------------------- callers of different tenants

\* two tenants, each table holding a row
InitRoute ==
  /\ config = Configured(ColK, << >>, FALSE)
  /\ caller = [ pool |-> << E1, E3 >>, ctxIds |-> { 1, 2 } ]
  /\ ctxs = Contexts0
  /\ heap = [ c \in Slots |-> << >> ]
  /\ tables = [ t \in TableNames |-> SetToBag({ RowOf(E1) }) ]
  /\ calls = [ c \in Slots |-> InitCall ]
  /\ prev = NoPrev
  /\ sortCase = NoSort

\* one adapter instance serves a caller that reads and removes and a caller
\* that updates, each call carrying either tenant's context; the calls
\* interleave at their awaits
NextRoute ==
  \/ find(1)
  \/ removeById(1)
  \/ updateById(2)
  \/ \E c \in Slots : Resume(c)

SpecRoute == InitRoute /\ [][NextRoute]_vars

\* the context the hook put on the call's payload
OwnContext(call) == Contexts0[call.given[1]]

\* C18: every job of a call that carries a context has every statement on
\* the table getTableName gives for that call's own context and has that
\* context's region as its location, whatever the other caller's call does
\* in between; the adapter's own fields are the configuration, which no call
\* changes.
C18_JobsRoutedByOwnContext ==
  /\ config = Configured(ColK, << >>, FALSE)
  /\ \A c \in Slots :
       LET call == calls[c]
       IN  \A j \in DOMAIN call.jobs :
             /\ call.given[1] # 0
             /\ call.jobs[j].location = OwnContext(call).region
             /\ \A i \in DOMAIN call.jobs[j].text :
                  call.jobs[j].text[i].table = getTableName(OwnContext(call))

\* both callers have a job submitted, for different tenants, after the
\* second caller's call began while the first was suspended
C18_Witness ==
  /\ calls[1].jobs # << >> /\ calls[2].jobs # << >>
  /\ calls[1].pc = "submitted" /\ calls[2].pc = "submitted"
  /\ calls[1].given[1] # calls[2].given[1]
  /\ calls[1].jobs[1].location # calls[2].jobs[1].location
  /\ Len(calls[1].jobs) = 2

\* ------------------------------------------------------ the text rewrite hook

\* an adapter configured with or without a queryWrapper
InitWrap ==
  /\ config \in { Configured(ColK, << >>, w) : w \in BOOLEAN }
  /\ caller = [ pool |-> << E1, E3 >>, ctxIds |-> { 1, 2 } ]
  /\ ctxs = Contexts0
  /\ heap = [ c \in Slots |-> << >> ]
  /\ tables = [ t \in TableNames |-> SetToBag({ RowOf(E1) }) ]
  /\ calls = [ c \in Slots |-> InitCall ]
  /\ prev = NoPrev
  /\ sortCase = NoSort

NextWrap ==
  \/ find(1)
  \/ insert(1)
  \/ updateById(1)
  \/ removeById(1)
  \/ Resume(1)

SpecWrap == InitWrap /\ [][NextWrap]_vars

\* C19: with a queryWrapper configured, the text of every job is the
\* wrapper applied to the final SQL text and the job's log line, once
\* written, records that same wrapped text; with none configured, the final
\* SQL text is both the job's text and the logged text.
C19_WrappedTextSubmittedAndLogged ==
  \A c \in Slots :
    \A j \in DOMAIN calls[c].jobs :
      LET job == calls[c].jobs[j]
      IN  /\ job.text = IF config.queryWrapper
                        THEN queryWrapper(job.query, job.location)
                        ELSE job.query
          /\ job.logged # << >> => job.logged[1] = job.text

\* ------------------------------------------------- insert and insertMany

\* the text insertMany([entity]) builds for the entity of an insert call
InsertManyOfOne(call, h, t) ==
  TextOf([ call EXCEPT !.op = "insertMany", !.args = << 1 >> ], h, t, config)

\* C20: an insert submits the text insertMany builds for the list of that
\* one entity, an INSERT of every field of the entity followed by the SELECT
\* on its primary-key value, and the rows its job returns hold the entity
\* as written.
C20_InsertIsInsertManyOfOne ==
  \A c \in Slots :
    LET call == calls[c]
        entity == heap[c][1]
    IN  call.op = "insert" /\ call.jobs # << >> =>
          /\ call.jobs[1].query =
               InsertManyOfOne(call, heap[c], ctxs[call.ctx].tableName)
          /\ call.jobs[1].query[1].values = << entity >>
          /\ call.pc \in { "ran", "done" } => BagIn(RowOf(entity), call.rows)

====
